---- MODULE Spec2Model ----
(***************************************************************************)
(* A model of the go-api-server scaffolding: the JWT token service and     *)
(* middleware (internal/handler/middleware/jwt.go), the panic recovery     *)
(* handler and server lifecycle (pkg/server) and the process orchestrator  *)
(* (cmd/server/main.go).                                                   *)
(*                                                                         *)
(* Time is counted in ticks, TicksPerSec ticks to the second, so that the  *)
(* truncation of time.Time to Unix seconds is a real conversion.           *)
(***************************************************************************)
EXTENDS Integers, Sequences, FiniteSets, TLC

VARIABLES
    now,        \* the wall clock (time.Now()), in ticks
    cfg,        \* the *config.Config snapshot the process runs with
    tok,        \* the token most recently issued by the token service
    req,        \* the last request that went through the JWT middleware
    pc,         \* where main is
    loaded,     \* config.Load(env) returned a configuration and no error
    db,         \* the *database.DB main holds: "none", "open" or "closed"
    srv,        \* the http.Server inside server.Server
    gopc,       \* where the goroutine that calls srv.Start() is
    startErr,   \* what srv.Start() returned to that goroutine
    serverErrors, \* the channel make(chan error, 1)
    quit,       \* the channel make(chan os.Signal, 1)
    notified,   \* signal.Notify(quit, SIGINT, SIGTERM) has been called
    sigs,       \* how many termination signals the process was sent
    sel,        \* the case main's select took
    shut,       \* the call srv.Shutdown(ctx)
    exit,       \* how the process ended
    reqs,       \* the requests the server was sent, by connection
    conf,       \* the Config that config.Load has filled in from the environment
    verr,       \* what Config.Validate returned for it
    pool,       \* the connection pool of the sql.DB that database.New set up
    build,      \* which of the two server constructions built the engine
    env,        \* the --env flag
    dbUp,       \* whether the database answers a ping
    ctx         \* the gin.Context of the request the engine is handling

jwtVars == <<cfg, tok, req>>
lifeVars == <<pc, loaded, db, srv, gopc, startErr, serverErrors, quit, notified, sigs,
              sel, shut, exit, reqs>>
partVars == <<conf, verr, pool, build, env, dbUp, ctx>>
vars == <<now, cfg, tok, req, pc, loaded, db, srv, gopc, startErr, serverErrors, quit,
          notified, sigs, sel, shut, exit, reqs, conf, verr, pool, build, env, dbUp,
          ctx>>

----------------------------------------------------------------------------
(* Bounds of the model *)

MaxTime == 4
MaxExpiry == 2
MaxHeaderLen == 3
MaxGrace == 1
MaxIssueTime == 1

TicksPerSec == 2

\* t.Unix(): the instant t truncated to whole seconds
Unix(t) == t \div TicksPerSec

\* time.Unix(s, 0): the instant of a whole second
FromUnix(s) == s * TicksPerSec

----------------------------------------------------------------------------
(* internal/handler/middleware/jwt.go *)

BearerScheme == "Bearer"
UserIDKey == "user_id"
UserEmailKey == "user_email"

NoError == "nil"
ErrMissingToken == "missing authorization token"
ErrInvalidToken == "invalid authorization token"
ErrExpiredToken == "token has expired"
ErrInvalidClaims == "invalid token claims"

\* errors of github.com/golang-jwt/jwt/v5 that ValidateToken tells apart
JwtErrTokenMalformed == "token is malformed"
JwtErrTokenSignatureInvalid == "token signature is invalid"
JwtErrTokenExpired == "token is expired"

Users == {"u1", "u2"}
Emails == {"e@x.com", "f@y.org"}
Secrets == {"configured-secret", "other-secret"}
Algs == {"HS256", "HS512", "none"}
SigningMethodHS256 == "HS256"

\* a JSON member that is not present / a nil *NumericDate
AbsentS == "<absent>"
AbsentN == -1
Nil == -1

\* the JSON object jwt.RegisteredClaims marshals to on its own
\* (every member is omitempty)
MarshalRegistered(rc) ==
    [user_id |-> AbsentS, email |-> AbsentS,
     exp |-> IF rc.ExpiresAt = Nil THEN AbsentN ELSE rc.ExpiresAt,
     iat |-> IF rc.IssuedAt = Nil THEN AbsentN ELSE rc.IssuedAt,
     iss |-> IF rc.Issuer = "" THEN AbsentS ELSE rc.Issuer,
     sub |-> IF rc.Subject = "" THEN AbsentS ELSE rc.Subject]

\* encoding/json on Claims: the members "exp" and "iat" of the outer struct
\* (depth 0) hide the members of the same JSON name of the embedded
\* jwt.RegisteredClaims (depth 1); the outer ones carry no omitempty
MarshalClaims(c) ==
    [user_id |-> c.UserID, email |-> c.Email,
     exp |-> c.ExpiresAt, iat |-> c.IssuedAt,
     iss |-> IF c.RegisteredClaims.Issuer = "" THEN AbsentS
             ELSE c.RegisteredClaims.Issuer,
     sub |-> IF c.RegisteredClaims.Subject = "" THEN AbsentS
             ELSE c.RegisteredClaims.Subject]

\* json.Unmarshal into &Claims{}: "exp" and "iat" are stored in the outer int64
\* fields; RegisteredClaims.ExpiresAt and RegisteredClaims.IssuedAt stay nil
UnmarshalClaims(p) ==
    [UserID |-> IF p.user_id = AbsentS THEN "" ELSE p.user_id,
     Email |-> IF p.email = AbsentS THEN "" ELSE p.email,
     ExpiresAt |-> IF p.exp = AbsentN THEN 0 ELSE p.exp,
     IssuedAt |-> IF p.iat = AbsentN THEN 0 ELSE p.iat,
     RegisteredClaims |->
        [ExpiresAt |-> Nil, IssuedAt |-> Nil,
         Issuer |-> IF p.iss = AbsentS THEN "" ELSE p.iss,
         Subject |-> IF p.sub = AbsentS THEN "" ELSE p.sub]]

NoClaims ==
    [UserID |-> "", Email |-> "", ExpiresAt |-> 0, IssuedAt |-> 0,
     RegisteredClaims |->
        [ExpiresAt |-> Nil, IssuedAt |-> Nil, Issuer |-> "", Subject |-> ""]]

\* a signed token string, seen through its three segments: the header's alg,
\* the key the signature was made with, and the payload's JSON object
SignedString(alg, key, payload) == [alg |-> alg, key |-> key, payload |-> payload]

NoToken == SignedString("-", "-", MarshalRegistered(NoClaims.RegisteredClaims))

\* GenerateToken with the expiry taken from the refresh setting
GenerateToken_RefreshExpiry(userID, email, c, t) ==
    LET expiresAt == t + c.JWT.RefreshExpiry
        claims == [UserID |-> userID, Email |-> email,
                   ExpiresAt |-> Unix(expiresAt), IssuedAt |-> Unix(t),
                   RegisteredClaims |->
                      [ExpiresAt |-> Unix(expiresAt), IssuedAt |-> Unix(t),
                       Issuer |-> c.App.Name, Subject |-> ""]]
    IN SignedString(SigningMethodHS256, c.JWT.Secret, MarshalClaims(claims))

GenerateToken(userID, email, c, t) ==
    LET expiresAt == t + c.JWT.Expiry
        claims == [UserID |-> userID, Email |-> email,
                   ExpiresAt |-> Unix(expiresAt), IssuedAt |-> Unix(t),
                   RegisteredClaims |->
                      [ExpiresAt |-> Unix(expiresAt), IssuedAt |-> Unix(t),
                       Issuer |-> c.App.Name, Subject |-> ""]]
    IN SignedString(SigningMethodHS256, c.JWT.Secret, MarshalClaims(claims))

GenerateRefreshToken(userID, c, t) ==
    LET expiresAt == t + c.JWT.RefreshExpiry
        claims == [ExpiresAt |-> Unix(expiresAt), IssuedAt |-> Unix(t),
                   Issuer |-> c.App.Name, Subject |-> userID]
    IN SignedString(SigningMethodHS256, c.JWT.Secret, MarshalRegistered(claims))

\* the Authorization header value: a string, seen as a sequence of atoms that are
\* a single space, a word without spaces, or the text of a signed token
SP == [k |-> "sp", w |-> " ", t |-> NoToken]
Word(w) == [k |-> "word", w |-> w, t |-> NoToken]
Jwt(t) == [k |-> "jwt", w |-> "", t |-> t]

Words == {"Bearer", "bearer", "Basic"}

\* strings.EqualFold(s, BearerScheme) for a string s given as atoms
ToLower(w) == IF w \in {"Bearer", "bearer"} THEN "bearer" ELSE w
EqualFoldBearer(s) ==
    Len(s) = 1 /\ s[1].k = "word" /\ ToLower(s[1].w) = ToLower(BearerScheme)

\* strings.SplitN(s, " ", 2)
SplitN2(s) ==
    LET sps == {i \in 1..Len(s) : s[i].k = "sp"}
    IN IF sps = {} THEN <<s>>
       ELSE LET i == CHOOSE j \in sps : \A m \in sps : j <= m
            IN <<SubSeq(s, 1, i - 1), SubSeq(s, i + 1, Len(s))>>

extractToken(authHeader) ==
    IF authHeader = <<>> THEN [token |-> <<>>, err |-> ErrMissingToken]
    ELSE LET parts == SplitN2(authHeader)
         IN IF Len(parts) # 2 \/ ~EqualFoldBearer(parts[1])
            THEN [token |-> <<>>, err |-> ErrInvalidToken]
            ELSE [token |-> parts[2], err |-> NoError]

\* jwt.Validator.Validate on *Claims: GetExpirationTime is promoted from the
\* embedded RegisteredClaims and reads RegisteredClaims.ExpiresAt; a nil date is
\* not checked, "iat" is not verified without WithIssuedAt
ValidatorValidate(claims, t) ==
    LET exp == claims.RegisteredClaims.ExpiresAt
    IN IF exp # Nil /\ ~(t < FromUnix(exp)) THEN JwtErrTokenExpired ELSE NoError

\* jwt.Parser.ParseWithClaims with the key function of ValidateToken: decode the
\* segments, check the alg against the valid methods, verify the signature with
\* the key, then validate the claims
ParseWithClaims(tokenString, validMethods, key, t) ==
    IF Len(tokenString) # 1 \/ tokenString[1].k # "jwt"
    THEN [claims |-> NoClaims, valid |-> FALSE, err |-> JwtErrTokenMalformed]
    ELSE LET token == tokenString[1].t
             claims == UnmarshalClaims(token.payload)
         IN IF token.alg \notin validMethods
            THEN [claims |-> claims, valid |-> FALSE,
                  err |-> JwtErrTokenSignatureInvalid]
            ELSE IF token.alg = "none" \/ token.key # key
            THEN [claims |-> claims, valid |-> FALSE,
                  err |-> JwtErrTokenSignatureInvalid]
            ELSE IF ValidatorValidate(claims, t) # NoError
            THEN [claims |-> claims, valid |-> FALSE,
                  err |-> ValidatorValidate(claims, t)]
            ELSE [claims |-> claims, valid |-> TRUE, err |-> NoError]

\* ValidateToken with a parser that was given no list of valid methods
ValidateToken_AnyMethod(tokenString, secret, t) ==
    LET token == ParseWithClaims(tokenString, Algs, secret, t)
    IN IF token.err # NoError
       THEN IF token.err = JwtErrTokenExpired
            THEN [claims |-> NoClaims, err |-> ErrExpiredToken]
            ELSE [claims |-> NoClaims, err |-> ErrInvalidToken]
       ELSE IF ~token.valid
       THEN [claims |-> NoClaims, err |-> ErrInvalidToken]
       ELSE [claims |-> token.claims, err |-> NoError]

ValidateToken(tokenString, secret, t) ==
    LET token == ParseWithClaims(tokenString, {SigningMethodHS256}, secret, t)
    IN IF token.err # NoError
       THEN IF token.err = JwtErrTokenExpired
            THEN [claims |-> NoClaims, err |-> ErrExpiredToken]
            ELSE [claims |-> NoClaims, err |-> ErrInvalidToken]
       ELSE IF ~token.valid
       THEN [claims |-> NoClaims, err |-> ErrInvalidToken]
       ELSE [claims |-> token.claims, err |-> NoError]

\* what the middleware did with one request: the response it wrote (status 0:
\* none), whether it aborted the chain, whether c.Next() ran the downstream
\* handler, and the keys it set in the gin context before that
NoBody == [error |-> AbsentS]
NoKeys == [user_id |-> AbsentS, user_email |-> AbsentS]

\* JWT without the return after a failed validation: the 401 is written and the
\* chain goes on
JWT_FallThrough(c, authHeader, t) ==
    LET x == extractToken(authHeader)
        v == ValidateToken(x.token, c.JWT.Secret, t)
    IN IF x.err # NoError
       THEN [status |-> 401, body |-> [error |-> x.err], aborted |-> TRUE,
             next |-> FALSE, keys |-> NoKeys]
       ELSE IF v.err # NoError
       THEN [status |-> 401, body |-> [error |-> v.err], aborted |-> FALSE,
             next |-> TRUE,
             keys |-> [user_id |-> v.claims.UserID,
                       user_email |-> v.claims.Email]]
       ELSE [status |-> 0, body |-> NoBody, aborted |-> FALSE, next |-> TRUE,
             keys |-> [user_id |-> v.claims.UserID,
                       user_email |-> v.claims.Email]]

JWT(c, authHeader, t) ==
    LET x == extractToken(authHeader)
        v == ValidateToken(x.token, c.JWT.Secret, t)
    IN IF x.err # NoError
       THEN [status |-> 401, body |-> [error |-> x.err], aborted |-> TRUE,
             next |-> FALSE, keys |-> NoKeys]
       ELSE IF v.err # NoError
       THEN [status |-> 401, body |-> [error |-> v.err], aborted |-> TRUE,
             next |-> FALSE, keys |-> NoKeys]
       ELSE [status |-> 0, body |-> NoBody, aborted |-> FALSE, next |-> TRUE,
             keys |-> [user_id |-> v.claims.UserID,
                       user_email |-> v.claims.Email]]

\* the configurations a process may have loaded
NoIssued == [kind |-> "none", s |-> NoToken, uid |-> "", email |-> "", at |-> 0]
NoReq == [header |-> <<>>, at |-> 0, seen |-> FALSE,
          out |-> [status |-> 0, body |-> NoBody, aborted |-> FALSE,
                   next |-> FALSE, keys |-> NoKeys]]

Configs ==
    {[App |-> [Name |-> "pray-together-api"],
      JWT |-> [Secret |-> "configured-secret", Expiry |-> e,
               RefreshExpiry |-> e + 1],
      Server |-> [GracefulTimeout |-> g]] : e \in 1..MaxExpiry, g \in 0..MaxGrace}

----------------------------------------------------------------------------
(* internal/config: the Config that Load fills in, and Config.Validate *)

MaxCharBytes == 2

MinPort == 1
MaxPort == 65535
MinSecretLen == 32
DefaultMaxOpenConns == 100

\* a string of the environment as far as Validate looks at it: so many
\* characters, each taking so many bytes in UTF-8
Str(chars, width) == [chars |-> chars, width |-> width]
EmptyStr == Str(0, 1)
Chars(s) == s.chars

\* Go's len(s) of a string: the number of its bytes
len(s) == s.chars * s.width

PortValues == {MinPort - 1, MinPort, MaxPort, MaxPort + 1}
NameValues == {"", "x"}
SecretValues ==
    {EmptyStr} \cup
    {Str(n, w) : n \in {1, MinSecretLen \div 2, MinSecretLen - 1, MinSecretLen,
                        MinSecretLen + 1},
                 w \in 1..MaxCharBytes}
LevelValues == {"debug", "info", "warn", "error", "INFO", ""}
FormatValues == {"json", "text", "xml"}
OpenConnsValues == {-1, 0, 1, 2, DefaultMaxOpenConns}

\* cfg := &Config{...} of Load: every value the environment can give the fields
\* that Validate and database.New read
LoadedConfigs ==
    [App : [Port : PortValues],
     Database : [Host : NameValues, Service : NameValues, User : NameValues,
                 Password : NameValues, MaxOpenConns : OpenConnsValues],
     JWT : [Secret : SecretValues],
     Log : [Level : LevelValues, Format : FormatValues]]

NoConfig ==
    [App |-> [Port |-> 0],
     Database |-> [Host |-> "", Service |-> "", User |-> "", Password |-> "",
                   MaxOpenConns |-> 0],
     JWT |-> [Secret |-> EmptyStr],
     Log |-> [Level |-> "", Format |-> ""]]

\* one entry of the errors slice: the format string and what fills its %s
Entry(msg, arg) == [msg |-> msg, arg |-> arg]

validLogLevels == {"debug", "info", "warn", "error"}
validLogFormats == {"json", "text"}

\* fmt.Errorf("validation errors: %s", strings.Join(errors, ", ")), or nil
Errorf(errors) ==
    IF Len(errors) > 0
    THEN [isNil |-> FALSE, msg |-> "validation errors: %s", entries |-> errors]
    ELSE [isNil |-> TRUE, msg |-> "", entries |-> <<>>]

Validate(c) ==
    LET If(cond, msg, arg) == IF cond THEN <<Entry(msg, arg)>> ELSE <<>>
        errors ==
            If(c.App.Port < MinPort \/ c.App.Port > MaxPort, "invalid port number", "")
            \o If(c.Database.Host = "", "database host is required", "")
            \o If(c.Database.Service = "", "database service is required", "")
            \o If(c.Database.User = "", "database user is required", "")
            \o If(c.Database.Password = "", "database password is required", "")
            \o If(len(c.JWT.Secret) = 0, "JWT secret is required", "")
            \o If(len(c.JWT.Secret) < MinSecretLen,
                  "JWT secret must be at least 32 characters", "")
            \o If(c.Log.Level \notin validLogLevels, "invalid log level: %s",
                  c.Log.Level)
            \o If(c.Log.Format \notin validLogFormats, "invalid log format: %s",
                  c.Log.Format)
    IN Errorf(errors)

NotValidated == [called |-> FALSE, err |-> Errorf(<<>>)]

----------------------------------------------------------------------------
(* pkg/server/bootstrap.go: the recovery handler, and gin's response writer  *)

MaxReqs == 2
MaxSignals == 1

StatusOK == 200
StatusInternalServerError == 500

ReqIds == 1..MaxReqs

\* what a handler may panic with: a string, an error, any other value, and the
\* *net.OpError of a broken connection that gin.CustomRecovery sets apart
PanicValues == {"string", "error", "other", "brokenPipe"}

Event(kind, what, code, fields) ==
    [kind |-> kind, level |-> "", what |-> what, code |-> code, fields |-> fields]

\* a record of the default slog logger
Record(level, msg, code, fields) ==
    [kind |-> "log", level |-> level, what |-> msg, code |-> code, fields |-> fields]

\* one request as its connection's goroutine sees it: the gin.Context with its
\* response writer, and what was logged and written for it, in order
NewRequest ==
    [pc |-> "idle", status |-> StatusOK, written |-> FALSE, aborted |-> FALSE,
     panicVal |-> "none", wroteFirst |-> FALSE, recovered |-> FALSE,
     events |-> <<>>]

\* gin's responseWriter.WriteHeader: once the header is out the status stays
WriteHeader(c, code) ==
    IF code # c.status /\ ~c.written THEN [c EXCEPT !.status = code] ELSE c

\* gin's responseWriter.Write: the header goes out with the first bytes
Write(c, what, fields) ==
    LET h == IF c.written THEN c.events
             ELSE Append(c.events, Event("header", "status", c.status, {}))
    IN [c EXCEPT !.written = TRUE,
                 !.events = Append(h, Event("body", what, 0, fields))]

\* c.JSON(code, obj)
JSON(c, code, what, fields) == Write(WriteHeader(c, code), what, fields)

\* c.AbortWithStatusJSON(code, obj)
AbortWithStatusJSON(c, code, what, fields) ==
    JSON([c EXCEPT !.aborted = TRUE], code, what, fields)

\* slog.Error(msg, key, value, ...)
SlogError(c, msg, fields) ==
    [c EXCEPT !.events = Append(c.events, Record("ERROR", msg, 0, fields))]

\* recoveryHandler that logs the panic and writes no response
recoveryHandler_LogOnly(c, recovered) ==
    [SlogError(c, "Panic recovered", {"error", "path", "method", "request_id"})
        EXCEPT !.recovered = TRUE, !.aborted = TRUE]

\* recoveryHandler that answers with the value that was recovered
recoveryHandler_EchoPanic(c, recovered) ==
    AbortWithStatusJSON([c EXCEPT !.recovered = TRUE], StatusInternalServerError,
                        recovered, {"error", "request_id"})

recoveryHandler(c, recovered) ==
    LET logged == IF recovered = "string"
                  THEN SlogError(c, "Panic recovered",
                                 {"error", "path", "method", "request_id"})
                  ELSE c
    IN AbortWithStatusJSON([logged EXCEPT !.recovered = TRUE],
                           StatusInternalServerError,
                           "Internal server error", {"error", "request_id"})

\* gin.CustomRecovery(handle): a broken connection is recorded and aborted
\* without calling handle; every other recovered value goes to handle
CustomRecovery(c) ==
    IF c.panicVal = "brokenPipe" THEN [c EXCEPT !.aborted = TRUE]
    ELSE recoveryHandler(c, c.panicVal)

\* the engine writes the header of a response no handler has written
WriteHeaderNow(c) ==
    IF c.written THEN c
    ELSE [c EXCEPT !.written = TRUE,
                   !.events = Append(c.events, Event("header", "status", c.status, {}))]

InFlight(c) == c.pc = "handler"

----------------------------------------------------------------------------
(* internal/infrastructure/database: the pool that database.New configures    *)

DefaultMaxIdleConns == 10

\* sql.DB before gorm.Open: nothing is open; who: what each request is doing
\* with the pool
NoPool ==
    [opened |-> FALSE, maxOpen |-> 0, maxIdle |-> 0, numOpen |-> 0, free |-> 0,
     who |-> [r \in 1..MaxReqs |-> "idle"]]

\* sqlDB.SetMaxOpenConns(n): a negative n is stored as 0, and 0 is no limit; an
\* idle limit above a positive n is lowered to n
SetMaxOpenConns(p, n) ==
    LET m == IF n < 0 THEN 0 ELSE n
    IN [p EXCEPT !.maxOpen = m,
                 !.maxIdle = IF m > 0 /\ p.maxIdle > m THEN m ELSE p.maxIdle]

\* sqlDB.SetMaxIdleConns(n)
SetMaxIdleConns(p, n) ==
    [p EXCEPT !.maxIdle = IF n < 0 THEN 0
                          ELSE IF p.maxOpen > 0 /\ n > p.maxOpen THEN p.maxOpen
                          ELSE n]

\* Conn that opens a connection whenever none is free
Conn_NoLimit(p, r) ==
    IF p.free > 0
    THEN [p EXCEPT !.free = p.free - 1, !.who[r] = "holding"]
    ELSE [p EXCEPT !.numOpen = p.numOpen + 1, !.who[r] = "holding"]

\* sql.DB.conn: a free connection is taken; else, with a limit that is reached,
\* the caller waits; else a new connection is opened
Conn(p, r) ==
    IF p.free > 0
    THEN [p EXCEPT !.free = p.free - 1, !.who[r] = "holding"]
    ELSE IF p.maxOpen > 0 /\ p.numOpen >= p.maxOpen
    THEN [p EXCEPT !.who[r] = "waiting"]
    ELSE [p EXCEPT !.numOpen = p.numOpen + 1, !.who[r] = "holding"]

\* sql.DB.putConn: the connection goes to a waiting caller, or to the idle
\* connections while there is room for it, or is closed
PutConn(p, r) ==
    LET waiting == {q \in DOMAIN p.who : p.who[q] = "waiting"}
    IN IF waiting # {}
       THEN LET q == CHOOSE q \in waiting : \A x \in waiting : q <= x
            IN [p EXCEPT !.who[r] = "idle", !.who[q] = "holding"]
       ELSE IF p.free < p.maxIdle
       THEN [p EXCEPT !.who[r] = "idle", !.free = p.free + 1]
       ELSE [p EXCEPT !.who[r] = "idle", !.numOpen = p.numOpen - 1]

\* database.New: the limits are applied and PingContext opens a connection
\* and puts it back
DatabaseNew(c) ==
    LET limited == SetMaxOpenConns(SetMaxIdleConns([NoPool EXCEPT !.opened = TRUE],
                                                   DefaultMaxIdleConns),
                                   c.Database.MaxOpenConns)
    IN PutConn(Conn(limited, 1), 1)

----------------------------------------------------------------------------
(* gin's handler chain as the two server constructions of the repository      *)
(* register it: pkg/server (SetupEngine, with the routes of router.Setup) and  *)
(* internal/infrastructure/server (New and SetupRoutes)                        *)

StatusNoContent == 204
StatusNotFound == 404
StatusServiceUnavailable == 503

Builds == {"pkg", "infrastructure"}
Envs == {"local", "prod"}

IsDevelopment(e) == e = "local" \/ e = "dev"
IsProduction(e) == e = "prod"

RequestIDKey == "request_id"
ContextKey == "db"

\* SetupEngine with the logger registered ahead of the recovery
SetupEngine_LoggerFirst ==
    <<"LoggerMiddleware", "Recovery", "RequestID", "CORS", "Timeout">>

\* router.Use(...) of Bootstrap.SetupEngine, in its order
SetupEngine == <<"Recovery", "RequestID", "CORS", "Timeout", "LoggerMiddleware">>

\* router.Use(...) of the infrastructure server's New, in its order
ServerNew == <<"Recovery", "LoggerMiddleware", "Middleware">>

Use(b) == IF b = "pkg" THEN SetupEngine ELSE ServerNew

Methods == {"GET", "OPTIONS"}
Paths == {"/health", "/ready", "/api/v1/ping"}
NoRoute == "noRoute"

\* the routes router.Setup registers
RouterSetup(method, path) ==
    IF method = "GET" /\ path = "/api/v1/ping" THEN "ping" ELSE NoRoute

\* the routes Server.SetupRoutes registers
SetupRoutes(method, path) ==
    IF method # "GET" THEN NoRoute
    ELSE CASE path = "/health" -> "healthCheck"
           [] path = "/ready" -> "readinessCheck"
           [] path = "/api/v1/ping" -> "ping"
           [] OTHER -> NoRoute

Route(b, method, path) ==
    IF b = "pkg" THEN RouterSetup(method, path) ELSE SetupRoutes(method, path)

\* gin.Context, with the frames of the middleware that have called c.Next()
NewContext ==
    [pc |-> "idle", method |-> "", path |-> "", route |-> NoRoute,
     handlers |-> <<>>, index |-> 0, stack |-> <<>>,
     status |-> StatusOK, written |-> FALSE, aborted |-> FALSE, keys |-> {},
     panicVal |-> "none", recovered |-> FALSE, dbWas |-> TRUE, events |-> <<>>]

\* c.AbortWithStatus(code)
AbortWithStatus(c, code) ==
    WriteHeaderNow(WriteHeader([c EXCEPT !.aborted = TRUE], code))

\* c.Set(key, value)
Set(c, key) == [c EXCEPT !.keys = c.keys \cup {key}]

\* database.GetDB(c): whether the handle is found in the context
GetDB(c) == ContextKey \in c.keys

\* setupLogger: the level of the default logger's handler
Enabled(e, level) == IsProduction(e) => level = "ERROR"

Slog(c, e, level, msg, code, fields) ==
    IF Enabled(e, level)
    THEN [c EXCEPT !.events = Append(c.events, Record(level, msg, code, fields))]
    ELSE c

LogFields(c) ==
    {"status", "method", "path", "ip", "latency", "user_agent"}
    \cup (IF RequestIDKey \in c.keys THEN {RequestIDKey} ELSE {})

\* pkg/server LoggerMiddleware, after c.Next() has returned
LoggerMiddleware(c, e) ==
    LET status == c.status
    IN CASE status >= 500 -> Slog(c, e, "ERROR", "Request processed", status, LogFields(c))
         [] status >= 400 /\ status < 500 ->
                Slog(c, e, "WARN", "Request processed", status, LogFields(c))
         [] OTHER -> Slog(c, e, "INFO", "Request processed", status, LogFields(c))

\* internal/infrastructure/server LoggerMiddleware, after c.Next() has returned
InfraLoggerMiddleware(c, e) ==
    LET status == c.status
        fields == {"status", "method", "path", "ip", "latency", "user_agent"}
    IN CASE status >= 500 -> Slog(c, e, "ERROR", "Request processed", status, fields)
         [] status >= 400 /\ status < 500 ->
                Slog(c, e, "WARN", "Request processed", status, fields)
         [] status >= 300 /\ status < 400 ->
                Slog(c, e, "INFO", "Request processed", status, fields)
         [] OTHER -> IF IsDevelopment(e)
                     THEN Slog(c, e, "DEBUG", "Request processed", status, fields)
                     ELSE c

\* internal/infrastructure/server recoveryHandler
InfraRecoveryHandler(c, recovered) ==
    LET logged == IF recovered = "string"
                  THEN SlogError(c, "Panic recovered", {"error", "path", "method"})
                  ELSE c
    IN AbortWithStatusJSON([logged EXCEPT !.recovered = TRUE],
                           StatusInternalServerError,
                           "Internal server error", {"error"})

\* the deferred function of gin.CustomRecovery, with the build's handler
Recover(b, c) ==
    IF b = "pkg" THEN CustomRecovery(c)
    ELSE IF c.panicVal = "brokenPipe" THEN [c EXCEPT !.aborted = TRUE]
    ELSE InfraRecoveryHandler(c, c.panicVal)

\* middleware.RequestID(): the identifier is attached to the context
RequestID(c) == Set(c, RequestIDKey)

\* middleware.CORS(cfg): a preflight request is answered with no body
CORS(c) == IF c.method = "OPTIONS" THEN AbortWithStatus(c, StatusNoContent) ELSE c

\* middleware.Timeout(d): the deadline is attached; its expiry is left out
Timeout(c) == c

\* database.Middleware(db)
Middleware(c) == Set(c, ContextKey)

\* what a middleware does before its c.Next()
Before(m, c) ==
    CASE m = "RequestID" -> RequestID(c)
      [] m = "CORS" -> CORS(c)
      [] m = "Timeout" -> Timeout(c)
      [] m = "Middleware" -> Middleware(c)
      [] OTHER -> c

\* what a middleware does after its c.Next() has returned
After(b, e, m, c) ==
    IF m # "LoggerMiddleware" THEN c
    ELSE IF b = "pkg" THEN LoggerMiddleware(c, e)
    ELSE InfraLoggerMiddleware(c, e)

\* DB.HealthCheck(ctx): PingContext fails while the database is unreachable
HealthCheck(up) ==
    IF up THEN NoError ELSE "database health check failed: ORA-12541: no listener"

\* Server.readinessCheck
readinessCheck(c, up) ==
    IF HealthCheck(up) # NoError
    THEN JSON(SlogError(c, "Readiness check failed", {"error"}),
              StatusServiceUnavailable, "database connection failed",
              {"status", "error"})
    ELSE JSON(c, StatusOK, "ready", {"status", "timestamp"})

\* Server.healthCheck
healthCheck(c) == JSON(c, StatusOK, "healthy", {"status", "timestamp"})

\* the handler of GET /api/v1/ping
ping(c) == JSON(c, StatusOK, "pong", {"message"})

RouteHandler(h, c, up) ==
    CASE h = "readinessCheck" -> readinessCheck(c, up)
      [] h = "healthCheck" -> healthCheck(c)
      [] OTHER -> ping(c)

\* gin's serveError: the body of a request no route matched, once the chain is
\* through and nothing was written
ServeError(c) ==
    IF c.route = NoRoute /\ ~c.written /\ c.status = StatusNotFound
    THEN Write(c, "404 page not found", {})
    ELSE WriteHeaderNow(c)

\* the parts that are looked at on their own are at rest
PartsIdle ==
    /\ conf = NoConfig
    /\ verr = NotValidated
    /\ pool = NoPool
    /\ build = "pkg"
    /\ env = "local"
    /\ dbUp = TRUE
    /\ ctx = NewContext

----------------------------------------------------------------------------
(* cmd/server/main.go and pkg/server/server.go: the process *)

ErrServerClosed == "http: Server closed"
ErrBind == "listen tcp: address already in use"
ErrAccept == "accept tcp: too many open files"
DeadlineExceeded == "context deadline exceeded"

NoSel == [case |-> "none", err |-> NoError]
NoShut == [called |-> FALSE, returned |-> FALSE, err |-> NoError,
           deadline |-> 0, busy |-> FALSE]
NoExit == [code |-> 0, by |-> "running"]

ProcessStart ==
    /\ pc = "load"
    /\ loaded = FALSE
    /\ db = "none"
    /\ srv = [created |-> FALSE, bound |-> FALSE, listening |-> FALSE,
              inShutdown |-> FALSE]
    /\ gopc = "none"
    /\ startErr = NoError
    /\ serverErrors = <<>>
    /\ quit = <<>>
    /\ notified = FALSE
    /\ sigs = 0
    /\ sel = NoSel
    /\ shut = NoShut
    /\ exit = NoExit
    /\ reqs = [r \in ReqIds |-> NewRequest]

Init ==
    /\ now = 0
    /\ cfg \in {c \in Configs : c.JWT.Expiry = MaxExpiry}
    /\ tok = NoIssued
    /\ req = NoReq
    /\ ProcessStart
    /\ PartsIdle

Running == pc # "exited"

\* the process ends: its goroutines, and the requests they serve, end with it
Exited(code, by) ==
    /\ pc' = "exited"
    /\ exit' = [code |-> code, by |-> by]
    /\ reqs' = [r \in ReqIds |->
                  IF InFlight(reqs[r]) THEN [NewRequest EXCEPT !.pc = "killed"]
                  ELSE reqs[r]]

\* cfg, err := config.Load(env); os.Exit(1) on error
LoadConfig ==
    /\ pc = "load"
    /\ \E res \in {"ok", "env file unreadable", "validation failed"} :
          IF res = "ok"
          THEN loaded' = TRUE /\ pc' = "openDB" /\ UNCHANGED <<exit, reqs>>
          ELSE loaded' = FALSE /\ Exited(1, "os.Exit")
    /\ UNCHANGED <<now, jwtVars, partVars, db, srv, gopc, startErr, serverErrors, quit,
                   notified, sigs, sel, shut>>

\* OpenDB that goes on with whatever database.New returned
OpenDB_IgnoreError ==
    /\ pc = "openDB"
    /\ \E res \in {"ok", "open failed", "ping failed"} :
          /\ db' = IF res = "ok" THEN "open" ELSE db
          /\ pc' = "setup"
          /\ UNCHANGED <<exit, reqs>>
    /\ UNCHANGED <<now, jwtVars, partVars, loaded, srv, gopc, startErr, serverErrors, quit,
                   notified, sigs, sel, shut>>

\* db, err := database.New(cfg): gorm.Open, pool limits, PingContext;
\* os.Exit(1) on error, else defer db.Close()
OpenDB ==
    /\ pc = "openDB"
    /\ \E res \in {"ok", "open failed", "ping failed"} :
          IF res = "ok"
          THEN db' = "open" /\ pc' = "setup" /\ UNCHANGED <<exit, reqs>>
          ELSE db' = db /\ Exited(1, "os.Exit")
    /\ UNCHANGED <<now, jwtVars, partVars, loaded, srv, gopc, startErr, serverErrors, quit,
                   notified, sigs, sel, shut>>

\* NewBootstrap, SetupEngine, routes.Setup, server.New, make(chan error, 1)
Setup ==
    /\ pc = "setup"
    /\ srv' = [srv EXCEPT !.created = TRUE]
    /\ pc' = "go"
    /\ UNCHANGED <<now, jwtVars, partVars, loaded, db, gopc, startErr, serverErrors, quit,
                   notified, sigs, sel, shut, exit, reqs>>

\* go func() { serverErrors <- srv.Start() }()
GoStart ==
    /\ pc = "go"
    /\ gopc' = "start"
    /\ pc' = "notify"
    /\ UNCHANGED <<now, jwtVars, partVars, loaded, db, srv, startErr, serverErrors, quit,
                   notified, sigs, sel, shut, exit, reqs>>

\* quit := make(chan os.Signal, 1); signal.Notify(quit, SIGINT, SIGTERM)
Notify ==
    /\ pc = "notify"
    /\ notified' = TRUE
    /\ pc' = "select"
    /\ UNCHANGED <<now, jwtVars, partVars, loaded, db, srv, gopc, startErr, serverErrors, quit,
                   sigs, sel, shut, exit, reqs>>

\* SIGINT or SIGTERM arrives: before signal.Notify it ends the process, after it
\* the signal is put in quit, or dropped when quit is full
Signal ==
    /\ Running
    /\ sigs < MaxSignals
    /\ sigs' = sigs + 1
    /\ \E sig \in {"interrupt", "terminated"} :
          IF notified
          THEN /\ quit' = IF Len(quit) < 1 THEN Append(quit, sig) ELSE quit
               /\ UNCHANGED <<pc, exit, reqs>>
          ELSE /\ Exited(2, sig)
               /\ quit' = quit
    /\ UNCHANGED <<now, jwtVars, partVars, loaded, db, srv, gopc, startErr, serverErrors,
                   notified, sel, shut>>

IsFatal(err) == err # NoError /\ err # ErrServerClosed

\* SelectError with os.Exit(1) where the code returns
SelectError_OsExit ==
    /\ pc = "select"
    /\ serverErrors # <<>>
    /\ sel' = [case |-> "error", err |-> Head(serverErrors)]
    /\ serverErrors' = Tail(serverErrors)
    /\ IF IsFatal(Head(serverErrors))
       THEN Exited(1, "os.Exit")
       ELSE pc' = "shutdown" /\ UNCHANGED <<exit, reqs>>
    /\ UNCHANGED <<now, jwtVars, partVars, loaded, db, srv, gopc, startErr, quit, notified, sigs,
                   shut>>

\* case err := <-serverErrors: return on a fatal error, so that the deferred
\* db.Close() runs; otherwise go on to the shutdown
SelectError ==
    /\ pc = "select"
    /\ serverErrors # <<>>
    /\ sel' = [case |-> "error", err |-> Head(serverErrors)]
    /\ serverErrors' = Tail(serverErrors)
    /\ pc' = IF IsFatal(Head(serverErrors)) THEN "deferred" ELSE "shutdown"
    /\ UNCHANGED <<now, jwtVars, partVars, loaded, db, srv, gopc, startErr, quit, notified, sigs,
                   shut, exit, reqs>>

\* case sig := <-quit
SelectSignal ==
    /\ pc = "select"
    /\ quit # <<>>
    /\ sel' = [case |-> "signal", err |-> NoError]
    /\ quit' = Tail(quit)
    /\ pc' = "shutdown"
    /\ UNCHANGED <<now, jwtVars, partVars, loaded, db, srv, gopc, startErr, serverErrors,
                   notified, sigs, shut, exit, reqs>>

\* ctx := context.WithTimeout(Background, cfg.Server.GracefulTimeout);
\* srv.Shutdown(ctx): s.server is set by New, so http.Server.Shutdown runs: it
\* marks the server as shutting down and closes the listener
ShutdownCall ==
    /\ pc = "shutdown"
    /\ shut' = [shut EXCEPT !.called = TRUE,
                            !.deadline = now + cfg.Server.GracefulTimeout]
    /\ srv' = [srv EXCEPT !.inShutdown = TRUE, !.listening = FALSE]
    /\ pc' = "draining"
    /\ UNCHANGED <<now, jwtVars, partVars, loaded, db, gopc, startErr, serverErrors, quit,
                   notified, sigs, sel, exit, reqs>>

\* http.Server.Shutdown polls: with no connection serving a request it returns
\* nil, else it waits for ctx.Done() or the next poll
ShutdownPoll ==
    /\ pc = "draining"
    /\ IF \A r \in ReqIds : ~InFlight(reqs[r])
       THEN /\ shut' = [shut EXCEPT !.returned = TRUE, !.err = NoError]
            /\ pc' = "complete"
       ELSE /\ shut' = [shut EXCEPT !.busy = TRUE]
            /\ pc' = pc
    /\ UNCHANGED <<now, jwtVars, partVars, loaded, db, srv, gopc, startErr, serverErrors, quit,
                   notified, sigs, sel, exit, reqs>>

\* <-ctx.Done() while http.Server.Shutdown waits: it returns ctx.Err() and
\* leaves the connections that are serving as they are
ShutdownDeadline ==
    /\ pc = "draining"
    /\ shut.busy
    /\ now >= shut.deadline
    /\ shut' = [shut EXCEPT !.returned = TRUE, !.err = DeadlineExceeded]
    /\ pc' = "complete"
    /\ UNCHANGED <<now, jwtVars, partVars, loaded, db, srv, gopc, startErr, serverErrors, quit,
                   notified, sigs, sel, exit, reqs>>

\* time passes while Shutdown waits
Elapse ==
    /\ pc = "draining"
    /\ now < shut.deadline
    /\ now < MaxTime
    /\ now' = now + 1
    /\ UNCHANGED <<jwtVars, lifeVars, partVars>>

\* "Server forced to shutdown" on an error, "Server shutdown complete", return:
\* the deferred cancel() runs
Complete ==
    /\ pc = "complete"
    /\ pc' = "deferred"
    /\ UNCHANGED <<now, jwtVars, partVars, loaded, db, srv, gopc, startErr, serverErrors, quit,
                   notified, sigs, sel, shut, exit, reqs>>

\* DeferredClose that reports a failed srv.Shutdown in the exit status
DeferredClose_ExitOnShutdownError ==
    /\ pc = "deferred"
    /\ db' = "closed"
    /\ Exited(IF shut.err # NoError THEN 1 ELSE 0, "return")
    /\ UNCHANGED <<now, jwtVars, partVars, loaded, srv, gopc, startErr, serverErrors, quit,
                   notified, sigs, sel, shut>>

\* the deferred db.Close(), whose error is only logged; main has returned and
\* the process exits with status 0
DeferredClose ==
    /\ pc = "deferred"
    /\ db' = "closed"
    /\ Exited(0, "return")
    /\ UNCHANGED <<now, jwtVars, partVars, loaded, srv, gopc, startErr, serverErrors, quit,
                   notified, sigs, sel, shut>>

\* srv.Start(): ListenAndServe returns ErrServerClosed on a server that is
\* shutting down, fails to bind, or binds the port and serves
SrvStart ==
    /\ Running
    /\ gopc = "start"
    /\ IF srv.inShutdown
       THEN /\ startErr' = ErrServerClosed
            /\ gopc' = "send"
            /\ srv' = srv
       ELSE \E bound \in BOOLEAN :
              IF bound
              THEN /\ srv' = [srv EXCEPT !.bound = TRUE, !.listening = TRUE]
                   /\ gopc' = "serving"
                   /\ startErr' = startErr
              ELSE /\ startErr' = ErrBind
                   /\ gopc' = "send"
                   /\ srv' = srv
    /\ UNCHANGED <<now, jwtVars, partVars, loaded, pc, db, serverErrors, quit, notified, sigs,
                   sel, shut, exit, reqs>>

\* Serve ends on an accept error that is not temporary: the listener is closed
SrvAcceptError ==
    /\ Running
    /\ gopc = "serving"
    /\ srv.listening
    /\ srv' = [srv EXCEPT !.listening = FALSE]
    /\ startErr' = ErrAccept
    /\ gopc' = "send"
    /\ UNCHANGED <<now, jwtVars, partVars, loaded, pc, db, serverErrors, quit, notified, sigs,
                   sel, shut, exit, reqs>>

\* Serve ends with ErrServerClosed once Shutdown has closed the listener
SrvClosed ==
    /\ Running
    /\ gopc = "serving"
    /\ srv.inShutdown
    /\ startErr' = ErrServerClosed
    /\ gopc' = "send"
    /\ UNCHANGED <<now, jwtVars, partVars, loaded, pc, db, srv, serverErrors, quit, notified,
                   sigs, sel, shut, exit, reqs>>

\* SrvSend on a channel made without a buffer: the send waits until main is
\* receiving in the select
SrvSend_Unbuffered ==
    /\ Running
    /\ gopc = "send"
    /\ pc = "select"
    /\ serverErrors' = Append(serverErrors, startErr)
    /\ gopc' = "done"
    /\ UNCHANGED <<now, jwtVars, partVars, loaded, pc, db, srv, startErr, quit, notified, sigs,
                   sel, shut, exit, reqs>>

\* serverErrors <- (the result of srv.Start())
SrvSend ==
    /\ Running
    /\ gopc = "send"
    /\ Len(serverErrors) < 1
    /\ serverErrors' = Append(serverErrors, startErr)
    /\ gopc' = "done"
    /\ UNCHANGED <<now, jwtVars, partVars, loaded, pc, db, srv, startErr, quit, notified, sigs,
                   sel, shut, exit, reqs>>

\* the listener accepts a connection and its request enters the chain
\* (connections are numbered in the order they are accepted)
Accept(r) ==
    /\ Running
    /\ srv.listening
    /\ reqs[r].pc = "idle"
    /\ \A q \in ReqIds : q < r => reqs[q].pc # "idle"
    /\ reqs' = [reqs EXCEPT ![r].pc = "handler"]
    /\ UNCHANGED <<now, jwtVars, partVars, loaded, pc, db, srv, gopc, startErr, serverErrors,
                   quit, notified, sigs, sel, shut, exit>>

\* a handler writes its response: c.JSON(http.StatusOK, ...)
HandlerWrite(r) ==
    /\ Running
    /\ reqs[r].pc = "handler"
    /\ ~reqs[r].written
    /\ reqs' = [reqs EXCEPT ![r] = JSON(reqs[r], StatusOK, "handler's body", {})]
    /\ UNCHANGED <<now, jwtVars, partVars, loaded, pc, db, srv, gopc, startErr, serverErrors,
                   quit, notified, sigs, sel, shut, exit>>

\* a handler, or a middleware below the recovery, panics with some value; the
\* deferred function of gin.CustomRecovery(b.recoveryHandler) recovers it in the
\* same goroutine, and the engine then finishes the response
HandlerPanic(r) ==
    /\ Running
    /\ reqs[r].pc = "handler"
    /\ \E v \in PanicValues :
          LET c == [reqs[r] EXCEPT !.panicVal = v, !.wroteFirst = reqs[r].written]
          IN reqs' = [reqs EXCEPT
                        ![r] = [WriteHeaderNow(CustomRecovery(c)) EXCEPT !.pc = "done"]]
    /\ UNCHANGED <<now, jwtVars, partVars, loaded, pc, db, srv, gopc, startErr, serverErrors,
                   quit, notified, sigs, sel, shut, exit>>

\* the handlers return and the engine finishes the response
HandlerReturn(r) ==
    /\ Running
    /\ reqs[r].pc = "handler"
    /\ reqs' = [reqs EXCEPT ![r] = [WriteHeaderNow(reqs[r]) EXCEPT !.pc = "done"]]
    /\ UNCHANGED <<now, jwtVars, partVars, loaded, pc, db, srv, gopc, startErr, serverErrors,
                   quit, notified, sigs, sel, shut, exit>>

Next ==
    \/ LoadConfig
    \/ OpenDB
    \/ Setup
    \/ GoStart
    \/ Notify
    \/ Signal
    \/ SelectError
    \/ SelectSignal
    \/ ShutdownCall
    \/ ShutdownPoll
    \/ ShutdownDeadline
    \/ Elapse
    \/ Complete
    \/ DeferredClose
    \/ SrvStart
    \/ SrvAcceptError
    \/ SrvClosed
    \/ SrvSend
    \/ \E r \in ReqIds : Accept(r)
    \/ \E r \in ReqIds : HandlerWrite(r)
    \/ \E r \in ReqIds : HandlerPanic(r)
    \/ \E r \in ReqIds : HandlerReturn(r)

Spec == Init /\ [][Next]_vars

\* what main does once its select has taken a case, up to the end of the process
MainSteps ==
    \/ ShutdownCall
    \/ ShutdownPoll
    \/ ShutdownDeadline
    \/ Elapse
    \/ Complete
    \/ DeferredClose

\* the Go scheduler runs a goroutine that can go on: main after its select, and
\* the goroutine of srv.Start() at its send; timers fire. Signals, connections,
\* handlers and the listener's errors come when they come.
\* For main and the goroutine of srv.Start() a request is a connection that is
\* being served for a while: what its handler writes, and a panic it recovers
\* from, stay inside the request.
NextLive ==
    \/ LoadConfig
    \/ OpenDB
    \/ Setup
    \/ GoStart
    \/ Notify
    \/ Signal
    \/ SelectError
    \/ SelectSignal
    \/ ShutdownCall
    \/ ShutdownPoll
    \/ ShutdownDeadline
    \/ Elapse
    \/ Complete
    \/ DeferredClose
    \/ SrvStart
    \/ SrvAcceptError
    \/ SrvClosed
    \/ SrvSend
    \/ \E r \in ReqIds : Accept(r)
    \/ \E r \in ReqIds : HandlerReturn(r)

SpecLive == Init /\ [][NextLive]_vars /\ WF_vars(MainSteps) /\ WF_vars(SrvSend)

----------------------------------------------------------------------------
(* The token service and the middleware at work: tokens are issued, time     *)
(* passes, and requests carrying any Authorization header arrive.            *)

\* the token strings a client may present: the one the service issued, and its
\* payload signed with another key or under another algorithm
Presentable(i) ==
    (IF i.kind = "none" THEN {} ELSE {i.s})
    \cup {SignedString(a, k, i.s.payload) :
            <<a, k>> \in (Algs \X Secrets) \ {<<SigningMethodHS256, cfg.JWT.Secret>>}}

PlainAtoms == {SP} \cup {Word(w) : w \in Words}
Plain(n) == [1..n -> PlainAtoms]

\* the header values a client may send: up to MaxHeaderLen atoms, among them at
\* most one token text, at any place
Headers(issued) ==
    UNION {Plain(n) : n \in 0..MaxHeaderLen}
    \cup UNION {{pre \o <<Jwt(t)>> \o post :
                    pre \in Plain(i), post \in Plain(n - 1 - i),
                    t \in Presentable(issued)} :
                <<i, n>> \in {x \in (0..MaxHeaderLen) \X (1..MaxHeaderLen) :
                               x[1] < x[2]}}

InitJWT ==
    /\ now = 0
    /\ cfg \in {c \in Configs : c.Server.GracefulTimeout = MaxGrace}
    /\ tok = NoIssued
    /\ req = NoReq
    /\ ProcessStart
    /\ PartsIdle

Tick ==
    /\ ~req.seen
    /\ now < MaxTime
    /\ now' = now + 1
    /\ UNCHANGED <<cfg, tok, req>>
    /\ UNCHANGED <<lifeVars, partVars>>

IssueAccess(u, e) ==
    /\ ~req.seen
    /\ now <= MaxIssueTime
    /\ tok' = [kind |-> "access", s |-> GenerateToken(u, e, cfg, now),
               uid |-> u, email |-> e, at |-> now]
    /\ UNCHANGED <<now, cfg, req>>
    /\ UNCHANGED <<lifeVars, partVars>>

IssueRefresh(u) ==
    /\ ~req.seen
    /\ now <= MaxIssueTime
    /\ tok' = [kind |-> "refresh", s |-> GenerateRefreshToken(u, cfg, now),
               uid |-> u, email |-> "", at |-> now]
    /\ UNCHANGED <<now, cfg, req>>
    /\ UNCHANGED <<lifeVars, partVars>>

\* a request with the Authorization header h goes through the middleware
Request ==
    /\ ~req.seen
    /\ \E h \in Headers(tok) :
          req' = [header |-> h, at |-> now, seen |-> TRUE,
                  out |-> JWT(cfg, h, now)]
    /\ UNCHANGED <<now, cfg, tok>>
    /\ UNCHANGED <<lifeVars, partVars>>

\* the response is written and the request's context is discarded
Respond ==
    /\ req.seen
    /\ req' = NoReq
    /\ UNCHANGED <<now, cfg, tok>>
    /\ UNCHANGED <<lifeVars, partVars>>

NextJWT ==
    \/ Tick
    \/ Respond
    \/ \E u \in Users, e \in Emails : IssueAccess(u, e)
    \/ \E u \in Users : IssueRefresh(u)
    \/ Request

SpecJWT == InitJWT /\ [][NextJWT]_vars

----------------------------------------------------------------------------
(* Load at work: the environment gives the Config its values, and Validate     *)
(* accepts it or lists what is wrong with it.                                  *)

InitConfig ==
    /\ now = 0
    /\ cfg \in {c \in Configs : c.JWT.Expiry = MaxExpiry
                                /\ c.Server.GracefulTimeout = MaxGrace}
    /\ tok = NoIssued
    /\ req = NoReq
    /\ ProcessStart
    /\ conf \in {c \in LoadedConfigs : c.Database.MaxOpenConns = DefaultMaxOpenConns}
    /\ verr = NotValidated
    /\ pool = NoPool
    /\ build = "pkg"
    /\ env = "local"
    /\ dbUp = TRUE
    /\ ctx = NewContext

\* if err := cfg.Validate(); err != nil { ... }
CallValidate ==
    /\ ~verr.called
    /\ verr' = [called |-> TRUE, err |-> Validate(conf)]
    /\ UNCHANGED <<now, jwtVars, lifeVars, conf, pool, build, env, dbUp, ctx>>

NextConfig == CallValidate

SpecConfig == InitConfig /\ [][NextConfig]_vars

----------------------------------------------------------------------------
(* The engine at work in a process that is listening: requests arrive one at a *)
(* time and pass through the handler chain, and the database comes and goes.   *)

\* main has started the server and waits in its select
Listening ==
    /\ pc = "select"
    /\ loaded = TRUE
    /\ db = "open"
    /\ srv = [created |-> TRUE, bound |-> TRUE, listening |-> TRUE,
              inShutdown |-> FALSE]
    /\ gopc = "serving"
    /\ startErr = NoError
    /\ serverErrors = <<>>
    /\ quit = <<>>
    /\ notified = TRUE
    /\ sigs = 0
    /\ sel = NoSel
    /\ shut = NoShut
    /\ exit = NoExit
    /\ reqs = [r \in ReqIds |-> NewRequest]

InitServe ==
    /\ now = 0
    /\ cfg \in {c \in Configs : c.JWT.Expiry = MaxExpiry
                                /\ c.Server.GracefulTimeout = MaxGrace}
    /\ tok = NoIssued
    /\ req = NoReq
    /\ Listening
    /\ conf = NoConfig
    /\ verr = NotValidated
    /\ pool = NoPool
    /\ build \in Builds
    /\ env \in Envs
    /\ dbUp = TRUE
    /\ ctx = NewContext

Exhausted(c) == c.aborted \/ c.index > Len(c.handlers)

Entered(c, h) == [c EXCEPT !.events = Append(c.events, Event("in", h, 0, c.keys))]

\* the engine takes a request: the handlers are the registered middleware and
\* the handler of the matching route; without a match the status starts at 404
Arrive ==
    /\ ctx.pc = "idle"
    /\ ~req.seen
    /\ \E method \in Methods, path \in Paths :
          LET h == Route(build, method, path)
          IN ctx' = [NewContext EXCEPT
                        !.pc = "chain", !.method = method, !.path = path,
                        !.route = h,
                        !.handlers = Use(build) \o
                                     (IF h = NoRoute THEN <<>> ELSE <<h>>),
                        !.index = 1,
                        !.status = IF h = NoRoute THEN StatusNotFound
                                   ELSE StatusOK]
    /\ UNCHANGED <<now, jwtVars, lifeVars, conf, verr, pool, build, env, dbUp>>

\* c.Next() runs the next middleware up to its own c.Next(), or to its return
\* when it aborts
MiddlewareIn ==
    /\ ctx.pc = "chain"
    /\ ~Exhausted(ctx)
    /\ ctx.index <= Len(Use(build))
    /\ LET m == ctx.handlers[ctx.index]
           c == Before(m, Entered(ctx, m))
       IN ctx' = IF c.aborted
                 THEN [c EXCEPT !.index = ctx.index + 1,
                                !.events = Append(c.events,
                                                  Event("abort", m, c.status, {}))]
                 ELSE [c EXCEPT !.index = ctx.index + 1,
                                !.stack = Append(ctx.stack, m)]
    /\ UNCHANGED <<now, jwtVars, lifeVars, conf, verr, pool, build, env, dbUp>>

\* c.Next() runs the route's handler, which returns
HandlerRuns ==
    /\ ctx.pc = "chain"
    /\ ~Exhausted(ctx)
    /\ ctx.index > Len(Use(build))
    /\ LET h == ctx.handlers[ctx.index]
       IN ctx' = [RouteHandler(h, Entered(ctx, h), dbUp) EXCEPT
                     !.index = ctx.index + 1, !.dbWas = dbUp]
    /\ UNCHANGED <<now, jwtVars, lifeVars, conf, verr, pool, build, env, dbUp>>

\* the frames a panic leaves behind when the deferred function of the recovery
\* middleware has caught it
Unwind(stack) ==
    LET i == CHOOSE i \in 1..Len(stack) : stack[i] = "Recovery"
    IN SubSeq(stack, 1, i - 1)

\* the route's handler panics: the frames between it and the recovery middleware
\* are left without running what follows their c.Next()
HandlerPanics ==
    /\ ctx.pc = "chain"
    /\ ~Exhausted(ctx)
    /\ ctx.index > Len(Use(build))
    /\ \E i \in 1..Len(ctx.stack) : ctx.stack[i] = "Recovery"
    /\ \E v \in PanicValues :
          LET h == ctx.handlers[ctx.index]
              c == Recover(build, [Entered(ctx, h) EXCEPT !.panicVal = v,
                                                          !.dbWas = dbUp])
          IN ctx' = [c EXCEPT !.index = ctx.index + 1,
                              !.stack = Unwind(ctx.stack),
                              !.events = Append(c.events,
                                                Event("out", "Recovery", 0, {}))]
    /\ UNCHANGED <<now, jwtVars, lifeVars, conf, verr, pool, build, env, dbUp>>

\* the innermost c.Next() returns and its middleware does what follows it
MiddlewareOut ==
    /\ ctx.pc = "chain"
    /\ Exhausted(ctx)
    /\ ctx.stack # <<>>
    /\ LET m == ctx.stack[Len(ctx.stack)]
           c == [ctx EXCEPT !.stack = SubSeq(ctx.stack, 1, Len(ctx.stack) - 1),
                            !.events = Append(ctx.events, Event("out", m, 0, {}))]
       IN ctx' = After(build, env, m, c)
    /\ UNCHANGED <<now, jwtVars, lifeVars, conf, verr, pool, build, env, dbUp>>

\* the chain is through: the engine finishes the response
EngineDone ==
    /\ ctx.pc = "chain"
    /\ Exhausted(ctx)
    /\ ctx.stack = <<>>
    /\ ctx' = [ServeError(ctx) EXCEPT !.pc = "done"]
    /\ UNCHANGED <<now, jwtVars, lifeVars, conf, verr, pool, build, env, dbUp>>

\* the context goes back to the engine's pool
Discard ==
    /\ ctx.pc = "done"
    /\ ctx' = NewContext
    /\ UNCHANGED <<now, jwtVars, lifeVars, conf, verr, pool, build, env, dbUp>>

\* the database stops answering
DbFails ==
    /\ dbUp
    /\ dbUp' = FALSE
    /\ UNCHANGED <<now, jwtVars, lifeVars, conf, verr, pool, build, env, ctx>>

\* the database answers again
DbRecovers ==
    /\ ~dbUp
    /\ dbUp' = TRUE
    /\ UNCHANGED <<now, jwtVars, lifeVars, conf, verr, pool, build, env, ctx>>

\* a request to a route that is protected by the JWT middleware
ProtectedRequest ==
    /\ ctx.pc = "idle"
    /\ Request

NextServe ==
    \/ Arrive
    \/ MiddlewareIn
    \/ HandlerRuns
    \/ HandlerPanics
    \/ MiddlewareOut
    \/ EngineDone
    \/ Discard
    \/ DbFails
    \/ DbRecovers
    \/ ProtectedRequest
    \/ Respond

SpecServe == InitServe /\ [][NextServe]_vars

----------------------------------------------------------------------------
(* The pool at work: database.New has applied the limits of an accepted        *)
(* configuration, and concurrent requests borrow connections and return them.  *)

InitPool ==
    /\ now = 0
    /\ cfg \in {c \in Configs : c.JWT.Expiry = MaxExpiry
                                /\ c.Server.GracefulTimeout = MaxGrace}
    /\ tok = NoIssued
    /\ req = NoReq
    /\ Listening
    /\ conf \in {c \in LoadedConfigs : Validate(c).isNil}
    /\ verr = [called |-> TRUE, err |-> Validate(conf)]
    /\ pool = DatabaseNew(conf)
    /\ build = "pkg"
    /\ env = "local"
    /\ dbUp = TRUE
    /\ ctx = NewContext

\* a request asks the pool for a connection
Acquire(r) ==
    /\ pool.who[r] = "idle"
    /\ pool' = Conn(pool, r)
    /\ UNCHANGED <<now, jwtVars, lifeVars, conf, verr, build, env, dbUp, ctx>>

\* a request gives its connection back
Release(r) ==
    /\ pool.who[r] = "holding"
    /\ pool' = PutConn(pool, r)
    /\ UNCHANGED <<now, jwtVars, lifeVars, conf, verr, build, env, dbUp, ctx>>

\* an idle connection has reached ConnMaxLifetime and is closed
Expire ==
    /\ pool.free > 0
    /\ pool' = [pool EXCEPT !.free = pool.free - 1, !.numOpen = pool.numOpen - 1]
    /\ UNCHANGED <<now, jwtVars, lifeVars, conf, verr, build, env, dbUp, ctx>>

NextPool ==
    \/ \E r \in ReqIds : Acquire(r)
    \/ \E r \in ReqIds : Release(r)
    \/ Expire

SpecPool == InitPool /\ [][NextPool]_vars

----------------------------------------------------------------------------
(* The same orchestration around the Server of internal/infrastructure/server, *)
(* whose New leaves s.server nil and whose Start creates it.                   *)

InitInfra ==
    /\ now = 0
    /\ cfg \in {c \in Configs : c.JWT.Expiry = MaxExpiry}
    /\ tok = NoIssued
    /\ req = NoReq
    /\ ProcessStart
    /\ conf = NoConfig
    /\ verr = NotValidated
    /\ pool = NoPool
    /\ build = "infrastructure"
    /\ env = "local"
    /\ dbUp = TRUE
    /\ ctx = NewContext

\* server.New(cfg, db), SetupRoutes: the engine is built, s.server stays nil
InfraSetup ==
    /\ pc = "setup"
    /\ pc' = "go"
    /\ UNCHANGED <<now, jwtVars, partVars, loaded, db, srv, gopc, startErr,
                   serverErrors, quit, notified, sigs, sel, shut, exit, reqs>>

\* go func() { serverErrors <- srv.Start() }()
InfraGoStart ==
    /\ pc = "go"
    /\ gopc' = "assign"
    /\ pc' = "notify"
    /\ UNCHANGED <<now, jwtVars, partVars, loaded, db, srv, startErr, serverErrors,
                   quit, notified, sigs, sel, shut, exit, reqs>>

\* Start: s.server = &http.Server{...}; ListenAndServe follows
InfraStartAssign ==
    /\ Running
    /\ gopc = "assign"
    /\ srv' = [srv EXCEPT !.created = TRUE]
    /\ gopc' = "start"
    /\ UNCHANGED <<now, jwtVars, partVars, loaded, pc, db, startErr, serverErrors,
                   quit, notified, sigs, sel, shut, exit, reqs>>

\* what Shutdown may read in s.server: nil before Start has assigned it; after
\* that the pointer, or still nil as long as nothing orders the read after the
\* write (main has received nothing from the goroutine)
SeesNil ==
    IF ~srv.created THEN {TRUE}
    ELSE IF sel.case = "error" THEN {FALSE}
    ELSE {TRUE, FALSE}

\* srv.Shutdown(ctx): with s.server == nil it returns nil at once; else
\* http.Server.Shutdown marks the server as shutting down and closes the listener
InfraShutdownCall ==
    /\ pc = "shutdown"
    /\ \E isNil \in SeesNil :
          IF isNil
          THEN /\ shut' = [shut EXCEPT !.called = TRUE, !.returned = TRUE,
                                       !.err = NoError,
                                       !.deadline = now + cfg.Server.GracefulTimeout]
               /\ pc' = "complete"
               /\ srv' = srv
          ELSE /\ shut' = [shut EXCEPT !.called = TRUE,
                                       !.deadline = now + cfg.Server.GracefulTimeout]
               /\ srv' = [srv EXCEPT !.inShutdown = TRUE, !.listening = FALSE]
               /\ pc' = "draining"
    /\ UNCHANGED <<now, jwtVars, partVars, loaded, db, gopc, startErr, serverErrors,
                   quit, notified, sigs, sel, exit, reqs>>

NextInfra ==
    \/ LoadConfig
    \/ OpenDB
    \/ InfraSetup
    \/ InfraGoStart
    \/ Notify
    \/ Signal
    \/ SelectError
    \/ SelectSignal
    \/ InfraShutdownCall
    \/ ShutdownPoll
    \/ ShutdownDeadline
    \/ Elapse
    \/ Complete
    \/ DeferredClose
    \/ InfraStartAssign
    \/ SrvStart
    \/ SrvAcceptError
    \/ SrvClosed
    \/ SrvSend
    \/ \E r \in ReqIds : Accept(r)
    \/ \E r \in ReqIds : HandlerWrite(r)
    \/ \E r \in ReqIds : HandlerPanic(r)
    \/ \E r \in ReqIds : HandlerReturn(r)

SpecInfra == InitInfra /\ [][NextInfra]_vars

----------------------------------------------------------------------------
(* Properties of the token service and the JWT middleware (under SpecJWT) *)

\* the request presented exactly the text of token s as its bearer token
PresentsToken(s) ==
    /\ req.seen
    /\ extractToken(req.header) = [token |-> <<Jwt(s)>>, err |-> NoError]

\* C2: the middleware runs the downstream handler only when extractToken and
\* ValidateToken both succeeded, and then user_id and user_email of the validated
\* claims are in the context; in every other case it answers 401 with
\* {error: <the failure's message>}, aborts, and the handler does not run.
C2_HandlerOnlyAfterValidation ==
    req.seen =>
        LET x == extractToken(req.header)
            v == ValidateToken(x.token, cfg.JWT.Secret, req.at)
            ok == x.err = NoError /\ v.err = NoError
        IN /\ req.out.next => ok
           /\ ok => /\ req.out.next
                     /\ ~req.out.aborted
                     /\ req.out.keys = [user_id |-> v.claims.UserID,
                                        user_email |-> v.claims.Email]
           /\ ~ok => /\ ~req.out.next
                      /\ req.out.aborted
                      /\ req.out.status = 401
                      /\ req.out.body.error = (IF x.err # NoError THEN x.err ELSE v.err)
                      /\ req.out.body.error \in
                            {ErrMissingToken, ErrInvalidToken, ErrExpiredToken}
                      /\ req.out.keys = NoKeys

\* a request with a rejected token, and one with an accepted token whose
\* identity reached the context
C2_Witness ==
    /\ PresentsToken(tok.s)
    /\ tok.kind = "access"
    /\ req.out.next
    /\ req.out.keys = [user_id |-> "u2", user_email |-> "f@y.org"]

\* C3: a token issued by GenerateToken with the configured secret, validated
\* after its expiry instant, yields ErrExpiredToken (and neither ErrInvalidToken
\* nor claims).
C3_ExpiredTokenYieldsExpired ==
    (/\ tok.kind = "access"
     /\ PresentsToken(tok.s)
     /\ tok.at + cfg.JWT.Expiry < req.at)
    => /\ ValidateToken(<<Jwt(tok.s)>>, cfg.JWT.Secret, req.at).err = ErrExpiredToken
       /\ req.out.status = 401
       /\ req.out.body.error = ErrExpiredToken
       /\ ~req.out.next

\* C4: a token signed with another secret than the one given to ValidateToken, or
\* under another algorithm than HS256, yields ErrInvalidToken and no claims,
\* whatever else it holds.
C4_ForeignKeyOrAlgIsInvalid ==
    \A s \in Presentable(tok) :
        (PresentsToken(s) /\ (s.key # cfg.JWT.Secret \/ s.alg # SigningMethodHS256))
        => /\ ValidateToken(<<Jwt(s)>>, cfg.JWT.Secret, req.at)
                = [claims |-> NoClaims, err |-> ErrInvalidToken]
           /\ req.out.status = 401
           /\ req.out.body.error = ErrInvalidToken
           /\ ~req.out.next
           /\ req.out.keys = NoKeys

\* an issued access token re-signed under HS512 with the configured secret is
\* presented and refused
C4_Witness ==
    /\ tok.kind = "access"
    /\ PresentsToken(SignedString("HS512", cfg.JWT.Secret, tok.s.payload))
    /\ req.out.status = 401

\* C5: a token issued by GenerateToken(u, e, cfg) and validated at once with
\* cfg's secret yields claims with user identifier u, email e and an expiry equal
\* to the issue time plus cfg.JWT.Expiry.
C5_RoundTrip ==
    (tok.kind = "access" /\ PresentsToken(tok.s) /\ req.at = tok.at)
    => LET v == ValidateToken(<<Jwt(tok.s)>>, cfg.JWT.Secret, req.at)
       IN /\ v.err = NoError
          /\ v.claims.UserID = tok.uid
          /\ v.claims.Email = tok.email
          /\ v.claims.ExpiresAt = Unix(tok.at + cfg.JWT.Expiry)
          /\ req.out.next
          /\ req.out.keys = [user_id |-> tok.uid, user_email |-> tok.email]

\* a token issued in the second half of a second, with an expiry that is not a
\* whole number of seconds, is validated in the tick it was issued
C5_Witness ==
    /\ tok.kind = "access"
    /\ tok.at = 1
    /\ cfg.JWT.Expiry = 1
    /\ tok.uid = "u1"
    /\ tok.email = "e@x.com"
    /\ req.at = tok.at
    /\ req.header = <<Word("Bearer"), SP, Jwt(tok.s)>>
    /\ req.out.next

\* the failure classes of a request, read off the header alone
IsBearerForm(h) ==
    /\ Len(h) >= 3
    /\ h[1] \in {Word("Bearer"), Word("bearer")}
    /\ h[2] = SP
ProperlySigned(text) ==
    /\ Len(text) = 1
    /\ text[1].k = "jwt"
    /\ text[1].t.alg = "HS256"
    /\ text[1].t.key = cfg.JWT.Secret
TokenText(h) == SubSeq(h, 3, Len(h))
IsExpired(text, t) ==
    /\ text[1].t.payload.exp # AbsentN
    /\ FromUnix(text[1].t.payload.exp) < t
ClassOf(h, t) ==
    IF ~IsBearerForm(h) THEN "bearer"
    ELSE IF ~ProperlySigned(TokenText(h)) THEN "invalid"
    ELSE IF IsExpired(TokenText(h), t) THEN "expired"
    ELSE "none"

\* C6: three distinct error kinds, one per failure class: every request with
\* missing or malformed bearer material reports the kind a request without the
\* header reports, every request with an invalid token reports the kind a
\* wrongly signed token reports, an expired token is refused with a third kind,
\* and the three kinds differ.
C6_ThreeKindsOnePerClass ==
    req.seen =>
        LET kBearer == JWT(cfg, <<>>, req.at).body.error
            forged == SignedString("HS256", "other-secret", tok.s.payload)
            kInvalid == JWT(cfg, <<Word("Bearer"), SP, Jwt(forged)>>, req.at).body.error
            class == ClassOf(req.header, req.at)
        IN /\ kBearer # kInvalid
           /\ class = "bearer" => req.out.body.error = kBearer
           /\ class = "invalid" => req.out.body.error = kInvalid
           /\ class = "expired" => /\ req.out.status = 401
                                    /\ req.out.body.error \notin {kBearer, kInvalid, AbsentS}

----------------------------------------------------------------------------
(* Properties of the process and of panic recovery (under Spec) *)

\* C1: when the select takes the signal case, srv.Shutdown has been called by the
\* time the process exits; when it takes the server-error case with a fatal error
\* (not nil, not http.ErrServerClosed), the deferred db.Close() has run by then.
C1_ShutdownOrCleanupBeforeExit ==
    pc = "exited" =>
        /\ sel.case = "signal" => shut.called /\ shut.returned
        /\ (sel.case = "error" /\ IsFatal(sel.err)) => db = "closed"

\* the server failed while a signal was already waiting in quit; the select took
\* the error case and the process has exited
C1_Witness ==
    /\ pc = "exited"
    /\ sel.case = "error"
    /\ IsFatal(sel.err)
    /\ quit # <<>>
    /\ db = "closed"

\* the status lines sent for a request
StatusesSent(c) ==
    LET h == SelectSeq(c.events, LAMBDA e : e.kind = "header")
    IN [i \in 1..Len(h) |-> h[i].code]

Panicked(c) == c.pc = "done" /\ c.panicVal # "none"

\* a request's handling ends and nothing but that request changes
OnlyItsOwnRequest(r) ==
    /\ UNCHANGED <<pc, loaded, db, srv, gopc, startErr, serverErrors, quit,
                   notified, sigs, sel, shut, exit>>
    /\ \A q \in ReqIds \ {r} : reqs'[q] = reqs[q]

C8_EveryRecoveredPanicIsLogged ==
    \A r \in ReqIds :
        reqs[r].recovered =>
            \E i, j \in 1..Len(reqs[r].events) :
                /\ i < j
                /\ reqs[r].events[i].kind = "log"
                /\ {"path", "method", "request_id"} \subseteq reqs[r].events[i].fields
                /\ reqs[r].events[j].kind = "body"
                /\ reqs[r].events[j].what = "Internal server error"

\* C9: Shutdown returns once no request is in flight or once the deadline has
\* passed, and requests not finished by the deadline are closed then, so that no
\* request is being served once Shutdown has returned.
C9_NothingServedAfterShutdown ==
    (shut.returned /\ Running) =>
        /\ shut.err = DeadlineExceeded => now >= shut.deadline
        /\ \A r \in ReqIds : ~InFlight(reqs[r])

\* C10: the server listens only after config.Load succeeded and the database was
\* opened and pinged; a process that ends in os.Exit(1) at startup never
\* listened; on the signal path the database is closed only after srv.Shutdown
\* has returned.
C10_StartupAndCloseOrder ==
    /\ (srv.bound \/ gopc # "none") => (loaded /\ db # "none")
    /\ db # "none" => loaded
    /\ exit.by = "os.Exit" => (~srv.bound /\ gopc = "none" /\ (~loaded \/ db = "none"))
    /\ (sel.case = "signal" /\ db = "closed") => shut.returned

\* the server listened, a signal was taken, Shutdown returned and the database
\* was closed after it
C10_Witness ==
    /\ srv.bound
    /\ sel.case = "signal"
    /\ shut.returned
    /\ db = "closed"
    /\ pc = "exited"

\* C11: a process that ends through the signal-initiated shutdown exits with
\* status 0, whether srv.Shutdown returned nil or an error; a process that ends
\* itself without a loaded configuration or without an open database exits with
\* status 1.
C11_ExitCodes ==
    pc = "exited" =>
        /\ sel.case = "signal" => exit.code = 0
        /\ (exit.by \notin {"interrupt", "terminated"} /\ (~loaded \/ db = "none"))
           => exit.code = 1

\* the signal was taken, srv.Shutdown gave up at its deadline with an error, and
\* the process has exited
C11_Witness ==
    /\ pc = "exited"
    /\ sel.case = "signal"
    /\ shut.returned
    /\ shut.err = DeadlineExceeded
    /\ exit.code = 0

----------------------------------------------------------------------------
(* Properties of Config.Validate (under SpecConfig) *)

\* the rules as the specification words them
PortInRange(c) == c.App.Port >= 1 /\ c.App.Port <= 65535
SecretLongEnough(c) == Chars(c.JWT.Secret) >= 32
LevelKnown(c) == c.Log.Level \in {"debug", "info", "warn", "error"}
FormatKnown(c) == c.Log.Format \in {"json", "text"}

\* C12: Validate returns success exactly when the port is in [1, 65535], the
\* database host, service, user and password are non-empty, the secret has at
\* least 32 characters, and log level and log format are among the known ones.
C12_ValidateIffAllRulesHold ==
    verr.called =>
        (verr.err.isNil <=>
            /\ PortInRange(conf)
            /\ conf.Database.Host # ""
            /\ conf.Database.Service # ""
            /\ conf.Database.User # ""
            /\ conf.Database.Password # ""
            /\ SecretLongEnough(conf)
            /\ LevelKnown(conf)
            /\ FormatKnown(conf))

\* the rules of the specification, each with the entries that report it
RuleEntries ==
    [port |-> {"invalid port number"},
     host |-> {"database host is required"},
     service |-> {"database service is required"},
     user |-> {"database user is required"},
     password |-> {"database password is required"},
     secret |-> {"JWT secret is required",
                 "JWT secret must be at least 32 characters"},
     level |-> {"invalid log level: %s"},
     format |-> {"invalid log format: %s"}]

Violated(c) ==
    [port |-> ~PortInRange(c),
     host |-> c.Database.Host = "",
     service |-> c.Database.Service = "",
     user |-> c.Database.User = "",
     password |-> c.Database.Password = "",
     secret |-> ~SecretLongEnough(c),
     level |-> ~LevelKnown(c),
     format |-> ~FormatKnown(c)]

EntriesFor(err, rule) ==
    Len(SelectSeq(err.entries, LAMBDA e : e.msg \in RuleEntries[rule]))

\* C13: the aggregate error of an invalid configuration has exactly one entry
\* for each violated rule and none for a rule that is not violated.
C13_OneEntryPerViolatedRule ==
    (verr.called /\ ~verr.err.isNil) =>
        \A rule \in DOMAIN RuleEntries :
            EntriesFor(verr.err, rule) = (IF Violated(conf)[rule] THEN 1 ELSE 0)

----------------------------------------------------------------------------
(* Properties of the handler chain (under SpecServe) *)

\* the names of the context's events of one kind, in order
Names(c, kind) ==
    LET es == SelectSeq(c.events, LAMBDA e : e.kind = kind)
    IN [i \in 1..Len(es) |-> es[i].what]

Reverse(q) == [i \in 1..Len(q) |-> q[Len(q) + 1 - i]]

IsPrefix(p, q) == Len(p) <= Len(q) /\ p = SubSeq(q, 1, Len(p))

\* the place of a handler in the request's chain
Place(c, h) == CHOOSE i \in 1..Len(c.handlers) : c.handlers[i] = h

C15_OneLogRecordPerRequest ==
    ctx.pc = "done" =>
        \E i \in 1..Len(ctx.events) :
            LET e == ctx.events[i]
            IN /\ e.kind = "log" /\ e.what = "Request processed"
               /\ \A j \in 1..Len(ctx.events) :
                      (j # i /\ ctx.events[j].kind = "log")
                          => ctx.events[j].what # "Request processed"
               /\ \A j \in 1..Len(ctx.events) :
                      (ctx.events[j].kind = "body"
                       /\ ctx.events[j].what # "404 page not found") => j < i
               /\ e.code = ctx.status
               /\ ctx.status >= 500 => e.level = "ERROR"
               /\ (ctx.status >= 400 /\ ctx.status < 500) => e.level = "WARN"
               /\ ctx.status < 400 => e.level \in {"INFO", "DEBUG"}

\* the bodies written for a request
Bodies(c) == SelectSeq(c.events, LAMBDA e : e.kind = "body")

\* C16: a GET /ready is answered by what the database does at that time: 503
\* with status "not ready" and error "database connection failed" while the ping
\* fails, 200 with status "ready" when it succeeds.
C16_ReadyFollowsDatabase ==
    (ctx.pc = "done" /\ ctx.method = "GET" /\ ctx.path = "/ready"
     /\ ctx.panicVal = "none") =>
        IF ctx.dbWas
        THEN /\ ctx.status = StatusOK
             /\ Len(Bodies(ctx)) = 1
             /\ Bodies(ctx)[1].what = "ready"
        ELSE /\ ctx.status = StatusServiceUnavailable
             /\ Len(Bodies(ctx)) = 1
             /\ Bodies(ctx)[1].what = "database connection failed"
             /\ Bodies(ctx)[1].fields = {"status", "error"}

\* the error messages a response may carry
FixedMessages ==
    {"missing authorization token", "invalid authorization token",
     "token has expired", "invalid token claims",
     "Internal server error", "database connection failed"}

\* C18: the 401 of the JWT middleware, the 500 of the panic recovery and the 503
\* of the readiness check each carry an error field whose value is one of a fixed
\* set of messages, never the recovered value, the library's error or the
\* database's error text.
C18_FailureBodiesAreFixed ==
    /\ \A i \in 1..Len(ctx.events) :
           LET e == ctx.events[i]
           IN (e.kind = "body" /\ "error" \in e.fields) => e.what \in FixedMessages
    /\ (ctx.pc = "done" /\ ctx.status \in {StatusInternalServerError,
                                            StatusServiceUnavailable})
           => \E i \in 1..Len(ctx.events) :
                 ctx.events[i].kind = "body" /\ "error" \in ctx.events[i].fields
    /\ (req.seen /\ req.out.status # 0)
           => /\ req.out.status = 401
              /\ req.out.body.error \in FixedMessages

\* a handler panicked with a string, which was logged, and the 500 that was
\* written carries the fixed message
C18_Witness ==
    /\ ctx.pc = "done"
    /\ ctx.panicVal = "string"
    /\ ctx.status = StatusInternalServerError
    /\ \E i \in 1..Len(ctx.events) :
          /\ ctx.events[i].kind = "body"
          /\ ctx.events[i].what = "Internal server error"

\* C19: every handler of a route finds the database handle in its context:
\* database.GetDB gives (handle, true) when the handler is entered.
C19_HandlerFindsDatabase ==
    \A i \in 1..Len(ctx.events) :
        LET e == ctx.events[i]
        IN (e.kind = "in" /\ e.what \in {"ping", "healthCheck", "readinessCheck"})
             => ContextKey \in e.fields

----------------------------------------------------------------------------
(* Properties of the connection pool (under SpecPool) *)

\* C17 as stated: for every accepted configuration the number of open
\* connections never exceeds the configured DB_MAX_OPEN_CONNS.
C17_OpenNeverExceedsConfigured ==
    pool.opened => pool.numOpen <= conf.Database.MaxOpenConns

\* C17 as amended: for every accepted configuration with a positive
\* DB_MAX_OPEN_CONNS the number of open connections never exceeds it, and every
\* request that holds a connection holds one of the open ones.
C17_OpenNeverExceedsPositiveLimit ==
    (pool.opened /\ conf.Database.MaxOpenConns > 0) =>
        /\ pool.numOpen <= conf.Database.MaxOpenConns
        /\ pool.numOpen =
              pool.free + Cardinality({r \in ReqIds : pool.who[r] = "holding"})

\* the limit is one, one request holds the only connection and another waits
C17_Witness ==
    /\ conf.Database.MaxOpenConns = 1
    /\ pool.numOpen = 1
    /\ \E r, q \in ReqIds : pool.who[r] = "holding" /\ pool.who[q] = "waiting"

----------------------------------------------------------------------------
(* Properties of the Server of internal/infrastructure/server (under SpecInfra) *)

\* C20: once srv.Shutdown has returned, the server accepts no connection any
\* more, whenever the signal arrives relative to the goroutine that calls
\* srv.Start().
C20_NoAcceptAfterShutdown ==
    [][shut.returned =>
          \A r \in ReqIds : reqs[r].pc = "idle" => reqs'[r].pc # "handler"]_vars

----------------------------------------------------------------------------
(* The two token kinds at the middleware (under SpecJWT) *)

\* C21: a refresh token presented as the bearer token is not accepted as an access
\* token: whenever the middleware lets a request through, the user_id it attached
\* to the context is the non-empty user identifier of a token of GenerateToken.
C21_RefreshTokenNotAccepted ==
    (req.seen /\ req.out.next) =>
        /\ req.out.keys.user_id \in Users
        /\ tok.kind = "access"
        /\ req.out.keys.user_id = tok.uid

----------------------------------------------------------------------------
(* The goroutine of srv.Start() and main's way out (under SpecLive) *)

\* C22: the goroutine that runs srv.Start() never blocks on sending its result:
\* serverErrors has room for the one value it ever receives, wherever main is;
\* the send is made unless the process has ended first, and main, having taken
\* one case of its one select, ends after one bounded Shutdown at most.
C22_SendNeverBlocksAndMainEnds ==
    /\ []((Running /\ gopc = "send") => ENABLED SrvSend)
    /\ [][Len(serverErrors') <= 1 /\ (gopc = "done" => gopc' = "done")
             /\ (sel.case # "none" => sel' = sel)
             /\ (shut.called => shut'.called /\ shut'.deadline = shut.deadline)]_vars
    /\ (gopc = "send") ~> (gopc = "done" \/ ~Running)
    /\ (sel.case # "none") ~> ~Running

\* the signal case was taken and Shutdown has returned when the goroutine makes
\* its send, which nobody receives
C22_Witness ==
    /\ Running
    /\ sel.case = "signal"
    /\ shut.returned
    /\ gopc = "done"
    /\ serverErrors = <<ErrServerClosed>>

====
